---- MODULE Spec2Model ----
(***************************************************************************)
(* Model of the roster cleaning pipeline of processing.py (find_col,       *)
(* _promote_header_and_drop_first_three, _split_name_to_first_last,        *)
(* clean_and_filter) and of the call the /process route of app.py makes.   *)
(*                                                                         *)
(* A table is a record [columns, rows]: columns is the sequence of column  *)
(* names, rows the sequence of rows, each a sequence of cells aligned with *)
(* columns.  A cell is a string, the missing marker NaN, or (in a column   *)
(* converted by pd.to_numeric) an integer counting hundredths.             *)
(***************************************************************************)
EXTENDS Integers, Sequences, FiniteSets, TLC

VARIABLES raw_df, max_miles, status_whitelist, include_resigned,
          allowed_shift_titles, full, columns, patterns,
          pc, pass, first_out, result

vars == <<raw_df, max_miles, status_whitelist, include_resigned,
          allowed_shift_titles, full, columns, patterns,
          pc, pass, first_out, result>>

(***************************************************************************)
(* Bounds of the model.                                                    *)
(***************************************************************************)
MaxRows == 2
MaxLen == 4
MaxCols == 3
MaxRaw == 5

(***************************************************************************)
(* Values that are not strings in Python.  Each is a string no header      *)
(* normalisation and no cell of the model's universes can produce.         *)
(***************************************************************************)
NaN == "<NaN>"
None == "<None>"

(***************************************************************************)
(* Characters and the Python string primitives the code uses.              *)
(***************************************************************************)
Ch(s, i) == SubSeq(s, i, i)

UpperAZ == "ABCDEFGHIJKLMNOPQRSTUVWXYZ"
LowerAZ == "abcdefghijklmnopqrstuvwxyz"
DigitChars == {"0", "1", "2", "3", "4", "5", "6", "7", "8", "9"}
UpperChars == {Ch(UpperAZ, i) : i \in 1..26}
LowerChars == {Ch(LowerAZ, i) : i \in 1..26}
SpaceChars == {" ", "\t", "\n", "\r"}
WordChars == UpperChars \cup LowerChars \cup DigitChars \cup {"_"}

LowerOf == [c \in UpperChars |-> Ch(LowerAZ, CHOOSE i \in 1..26 : Ch(UpperAZ, i) = c)]

LowerChar(c) == IF c \in UpperChars THEN LowerOf[c] ELSE c

RECURSIVE PyLower(_)
PyLower(s) == IF s = "" THEN "" ELSE LowerChar(Ch(s, 1)) \o PyLower(SubSeq(s, 2, Len(s)))

RECURSIVE PyLStrip(_)
PyLStrip(s) ==
    IF s # "" /\ Ch(s, 1) \in SpaceChars THEN PyLStrip(SubSeq(s, 2, Len(s))) ELSE s

RECURSIVE PyRStrip(_)
PyRStrip(s) ==
    IF s # "" /\ Ch(s, Len(s)) \in SpaceChars THEN PyRStrip(SubSeq(s, 1, Len(s) - 1)) ELSE s

PyStrip(s) == PyRStrip(PyLStrip(s))

\* s.split(): the maximal runs of non-whitespace characters, in order.
RECURSIVE SplitFrom(_, _, _)
SplitFrom(s, i, cur) ==
    IF i > Len(s) THEN (IF cur = "" THEN <<>> ELSE <<cur>>)
    ELSE IF Ch(s, i) \in SpaceChars
         THEN (IF cur = "" THEN <<>> ELSE <<cur>>) \o SplitFrom(s, i + 1, "")
         ELSE SplitFrom(s, i + 1, cur \o Ch(s, i))

PySplit(s) == SplitFrom(s, 1, "")

\* s.split(",", 1): cut at the first comma, or the whole string when there is none.
PySplitComma1(s) ==
    IF \E i \in 1..Len(s) : Ch(s, i) = ","
    THEN LET k == CHOOSE i \in 1..Len(s) :
                      Ch(s, i) = "," /\ \A j \in 1..(i - 1) : Ch(s, j) # ","
         IN  <<SubSeq(s, 1, k - 1), SubSeq(s, k + 1, Len(s))>>
    ELSE <<s>>

\* re.sub(r"\s+", " ", c): every run of whitespace becomes one space.
RECURSIVE CollapseFrom(_, _, _)
CollapseFrom(s, i, inrun) ==
    IF i > Len(s) THEN ""
    ELSE IF Ch(s, i) \in SpaceChars
         THEN (IF inrun THEN "" ELSE " ") \o CollapseFrom(s, i + 1, TRUE)
         ELSE Ch(s, i) \o CollapseFrom(s, i + 1, FALSE)

ReCollapseSpaces(s) == CollapseFrom(s, 1, FALSE)

\* str.replace(r"\D+", "", regex=True): only the digits stay.
RECURSIVE ReRemoveNonDigits(_)
ReRemoveNonDigits(s) ==
    IF s = "" THEN ""
    ELSE (IF Ch(s, 1) \in DigitChars THEN Ch(s, 1) ELSE "")
         \o ReRemoveNonDigits(SubSeq(s, 2, Len(s)))

\* str.replace(r"^0+$", "", regex=True): a non-empty run of zeros becomes "".
ReRemoveAllZeros(s) ==
    IF s # "" /\ \A i \in 1..Len(s) : Ch(s, i) = "0" THEN "" ELSE s

\* astype(str) / str(x): the missing marker prints as "nan".
AsStr(x) == IF x = NaN THEN "nan" ELSE x

(***************************************************************************)
(* Regular expressions of the column patterns.  A pattern is               *)
(* [lb, words, rb]: an optional leading \b, literal words joined by \s*,   *)
(* an optional trailing \b; re.IGNORECASE compares lowercased text.        *)
(***************************************************************************)
Pat(lb, words, rb) == [lb |-> lb, words |-> words, rb |-> rb]

IsWordAt(s, i) == i >= 1 /\ i <= Len(s) /\ Ch(s, i) \in WordChars

\* \b at position i: between character i-1 and character i.
WordBoundary(s, i) == IsWordAt(s, i - 1) # IsWordAt(s, i)

\* The positions right after a match of the (lowercased) words that starts at i
\* of the (lowercased) text.
RECURSIVE MatchEnds(_, _, _)
MatchEnds(words, s, i) ==
    IF words = <<>> THEN {i}
    ELSE LET w == Head(words)
             j == i + Len(w)
         IN  IF j - 1 > Len(s) \/ SubSeq(s, i, j - 1) # w THEN {}
             ELSE IF Len(words) = 1 THEN {j}
             ELSE UNION {MatchEnds(Tail(words), s, k) :
                            k \in {k \in j..(Len(s) + 1) :
                                      \A m \in j..(k - 1) : Ch(s, m) \in SpaceChars}}

\* re.search(pat, s, re.IGNORECASE)
ReSearch(p, s) ==
    LET ls == PyLower(s)
        lw == [k \in DOMAIN p.words |-> PyLower(p.words[k])]
    IN  \E i \in 1..(Len(s) + 1) :
            /\ p.lb => WordBoundary(ls, i)
            /\ \E j \in MatchEnds(lw, ls, i) : p.rb => WordBoundary(ls, j)

NamePatterns == <<Pat(TRUE, <<"employee", "name">>, TRUE), Pat(TRUE, <<"name">>, TRUE)>>
PhonePatterns == <<Pat(TRUE, <<"phone">>, TRUE), Pat(TRUE, <<"mobile">>, TRUE),
                   Pat(TRUE, <<"cell">>, TRUE)>>
MilesPatterns == <<Pat(FALSE, <<"miles", "from", "location">>, FALSE),
                   Pat(TRUE, <<"distance">>, TRUE), Pat(TRUE, <<"miles">>, TRUE),
                   Pat(TRUE, <<"mi">>, TRUE)>>
StatusPatterns == <<Pat(TRUE, <<"employee", "status">>, TRUE), Pat(TRUE, <<"status">>, TRUE)>>

(***************************************************************************)
(* find_col: columns in table order, patterns in list order per column.    *)
(***************************************************************************)
RECURSIVE AnyPattern(_, _)
AnyPattern(c, pats) ==
    IF pats = <<>> THEN FALSE
    ELSE IF ReSearch(Head(pats), c) THEN TRUE
    ELSE AnyPattern(c, Tail(pats))

\* A plausible slip: the loops nested the other way round (first pattern wins).
RECURSIVE FindColPatternFirst(_, _)
FindColPatternFirst(cols, pats) ==
    IF pats = <<>> THEN None
    ELSE IF \E i \in 1..Len(cols) : ReSearch(Head(pats), cols[i])
         THEN cols[CHOOSE i \in 1..Len(cols) :
                       /\ ReSearch(Head(pats), cols[i])
                       /\ \A j \in 1..(i - 1) : ~ReSearch(Head(pats), cols[j])]
         ELSE FindColPatternFirst(cols, Tail(pats))

RECURSIVE find_col(_, _)
find_col(cols, pats) ==
    IF cols = <<>> THEN None
    ELSE IF AnyPattern(Head(cols), pats) THEN Head(cols)
    ELSE find_col(Tail(cols), pats)

(***************************************************************************)
(* Results: a table that was returned, or the exception that was raised.   *)
(* numcol names the column pd.to_numeric converted (None when there is     *)
(* none): its cells are integers, in hundredths.                           *)
(***************************************************************************)
Table(cols, rows, numcol) ==
    [ok |-> TRUE, exc |-> "", msg |-> "", columns |-> cols, rows |-> rows, numcol |-> numcol]

Raise(exc, msg) ==
    [ok |-> FALSE, exc |-> exc, msg |-> msg, columns |-> <<>>, rows |-> <<>>, numcol |-> None]

EmptyMsg == "Input spreadsheet is empty."
NoDataMsg == "No data remains after removing the first 3 rows."
NoPhoneMsg == "Could not find a phone column (e.g., 'Employee Phone')."
NoNameMsg == "Could not find an 'Employee Name' column."

\* The subsequence of s at the indices in keep, in order (a boolean-mask selection).
RECURSIVE SelectIdx(_, _, _)
SelectIdx(s, keep, i) ==
    IF i > Len(s) THEN <<>>
    ELSE (IF i \in keep THEN <<s[i]>> ELSE <<>>) \o SelectIdx(s, keep, i + 1)

Mask(s, keep) == SelectIdx(s, keep, 1)

\* The position of column c (the first one of that name).
ColIdx(cols, c) ==
    CHOOSE i \in 1..Len(cols) : cols[i] = c /\ \A j \in 1..(i - 1) : cols[j] # c

(***************************************************************************)
(* _promote_header_and_drop_first_three.  raw is the sequence of rows of   *)
(* the frame read with header=None; a frame with rows has at least one     *)
(* column, so raw_df.empty is "no rows".                                   *)
(***************************************************************************)
HeaderName(x) == PyStrip(ReCollapseSpaces(IF x # NaN THEN PyStrip(x) ELSE ""))

\* A plausible slip: the header row is promoted but left among the data rows.
PromoteKeepHeaderRow(raw) ==
    IF raw = <<>> THEN Raise("ValueError", EmptyMsg)
    ELSE LET trimmed == SubSeq(raw, 4, Len(raw))
         IN  IF Len(trimmed) = 0 THEN Raise("ValueError", NoDataMsg)
             ELSE Table([j \in DOMAIN trimmed[1] |-> HeaderName(trimmed[1][j])],
                        trimmed, None)

_promote_header_and_drop_first_three(raw) ==
    IF raw = <<>> THEN Raise("ValueError", EmptyMsg)
    ELSE LET trimmed == SubSeq(raw, 4, Len(raw))
         IN  IF Len(trimmed) = 0 THEN Raise("ValueError", NoDataMsg)
             ELSE LET new_header == trimmed[1]
                      df == SubSeq(trimmed, 2, Len(trimmed))
                  IN  Table([j \in DOMAIN new_header |-> HeaderName(new_header[j])],
                            df, None)

(***************************************************************************)
(* _split_name_to_first_last: the pair ("First Name", "Last Name").        *)
(***************************************************************************)
Names(first, last) == [first |-> first, last |-> last]

\* A plausible slip: the token next to the comma is taken from the wrong end,
\* and the fallback takes the second token as the last name.
SplitNameWrongToken(x) ==
    IF x = NaN THEN Names(NaN, NaN)
    ELSE LET s == PyStrip(x)
         IN  IF s = "" THEN Names("", "")
             ELSE IF \E i \in 1..Len(s) : Ch(s, i) = ","
             THEN LET parts == PySplitComma1(s)
                      rest == PyStrip(parts[2])
                      toks == PySplit(rest)
                  IN  Names(IF rest # "" THEN toks[Len(toks)] ELSE "", PyStrip(parts[1]))
             ELSE LET parts == PySplit(s)
                  IN  IF Len(parts) = 1 THEN Names(parts[1], "")
                      ELSE Names(parts[1], parts[2])

_split_name_to_first_last(x) ==
    IF x = NaN THEN Names(NaN, NaN)
    ELSE LET s == PyStrip(x)
         IN  IF s = "" THEN Names("", "")
             ELSE IF \E i \in 1..Len(s) : Ch(s, i) = ","
             THEN LET split == PySplitComma1(s)
                      parts == [k \in DOMAIN split |-> PyStrip(split[k])]
                      last == parts[1]
                      rest == IF Len(parts) > 1 THEN parts[2] ELSE ""
                      first == IF rest # "" THEN PySplit(rest)[1] ELSE ""
                  IN  Names(first, last)
             ELSE LET parts == PySplit(s)
                  IN  IF Len(parts) = 1 THEN Names(parts[1], "")
                      ELSE Names(parts[1], parts[Len(parts)])

(***************************************************************************)
(* pd.to_numeric(errors="coerce") and the float of max_miles.  Numbers are *)
(* counted in hundredths; the grammar is an optional sign, digits, and an  *)
(* optional point with at most two decimals, which covers every distance   *)
(* cell of the model's universes.  Anything else coerces to NaN.           *)
(***************************************************************************)
AllDigits(s) == \A i \in 1..Len(s) : Ch(s, i) \in DigitChars

DigitVal(c) == CHOOSE d \in 0..9 : Ch("0123456789", d + 1) = c

RECURSIVE ParseNat(_)
ParseNat(s) ==
    IF s = "" THEN 0
    ELSE 10 * ParseNat(SubSeq(s, 1, Len(s) - 1)) + DigitVal(Ch(s, Len(s)))

Num(v) == [nan |-> FALSE, v |-> v]
NumNaN == [nan |-> TRUE, v |-> 0]

ParseUnsigned(s) ==
    LET dots == {i \in 1..Len(s) : Ch(s, i) = "."}
    IN  IF dots = {}
        THEN (IF s # "" /\ AllDigits(s) THEN Num(100 * ParseNat(s)) ELSE NumNaN)
        ELSE IF Cardinality(dots) > 1 THEN NumNaN
        ELSE LET k == CHOOSE i \in dots : TRUE
                 ip == SubSeq(s, 1, k - 1)
                 fp == SubSeq(s, k + 1, Len(s))
             IN  IF AllDigits(ip) /\ AllDigits(fp) /\ Len(fp) <= 2 /\ (ip # "" \/ fp # "")
                 THEN Num(100 * ParseNat(ip)
                          + (IF Len(fp) = 1 THEN 10 * ParseNat(fp) ELSE ParseNat(fp)))
                 ELSE NumNaN

to_numeric(x) ==
    IF x = NaN THEN NumNaN
    ELSE IF x # "" /\ Ch(x, 1) = "-"
         THEN LET u == ParseUnsigned(SubSeq(x, 2, Len(x)))
              IN  IF u.nan THEN NumNaN ELSE Num(0 - u.v)
         ELSE ParseUnsigned(x)

(***************************************************************************)
(* The steps of clean_and_filter, each on the rows of the frame and the    *)
(* position k of the column it reads.                                      *)
(***************************************************************************)
\* Step C: digits only.
StepC(rows, k) ==
    [i \in DOMAIN rows |-> [rows[i] EXCEPT ![k] = ReRemoveNonDigits(AsStr(rows[i][k]))]]

\* Step D: drop a missing, an empty or an all-zero phone.
StepD(rows, k) ==
    LET d1 == Mask(rows, {i \in DOMAIN rows : rows[i][k] # NaN})
        d2 == Mask(d1, {i \in DOMAIN d1 : Len(d1[i][k]) > 0})
    IN  Mask(d2, {i \in DOMAIN d2 : Len(ReRemoveAllZeros(d2[i][k])) > 0})

\* A plausible slip: the leading "1" is not looked at.
StepEKeepAll(rows, k) == rows

\* Step E: drop a phone that begins with "1".
StepE(rows, k) ==
    Mask(rows, {i \in DOMAIN rows : ~(Len(rows[i][k]) >= 1 /\ Ch(rows[i][k], 1) = "1")})

\* A plausible slip: keep="last" instead of the default keep="first".
DropDuplicatesKeepLast(rows, k) ==
    Mask(rows, {i \in DOMAIN rows : \A j \in (i + 1)..Len(rows) : rows[j][k] # rows[i][k]})

\* Step F: drop_duplicates(subset=[name_col]) keeps the first row of each name.
drop_duplicates(rows, k) ==
    Mask(rows, {i \in DOMAIN rows : \A j \in 1..(i - 1) : rows[j][k] # rows[i][k]})

\* A plausible slip: a strict comparison.
StepGStrict(rows, k, mm) ==
    LET conv == [i \in DOMAIN rows |-> to_numeric(rows[i][k])]
        kept == {i \in DOMAIN rows : ~conv[i].nan /\ conv[i].v < mm}
    IN  Mask([i \in DOMAIN rows |-> [rows[i] EXCEPT ![k] = conv[i].v]], kept)

\* Step G: to_numeric, then <= max_miles; a NaN compares false.
StepG(rows, k, mm) ==
    LET conv == [i \in DOMAIN rows |-> to_numeric(rows[i][k])]
        kept == {i \in DOMAIN rows : ~conv[i].nan /\ conv[i].v <= mm}
    IN  Mask([i \in DOMAIN rows |-> [rows[i] EXCEPT ![k] = conv[i].v]], kept)

\* A plausible slip: the masks are combined with "and".
StepHAnd(rows, k, wl, ir) ==
    LET allowed == {PyLower(s) : s \in wl}
        mask_whitelist == IF wl # {} THEN {i \in DOMAIN rows : PyLower(AsStr(rows[i][k])) \in allowed}
                          ELSE DOMAIN rows
        mask_resigned == {i \in DOMAIN rows : PyLower(PyStrip(AsStr(rows[i][k]))) = "resigned"}
    IN  Mask(rows, IF ir THEN mask_whitelist \cap mask_resigned ELSE mask_whitelist)

\* Step H: the whitelist mask, or-ed with the resigned mask when asked for.
StepH(rows, k, wl, ir) ==
    LET allowed == {PyLower(s) : s \in wl}
        mask_whitelist == IF wl # {} THEN {i \in DOMAIN rows : PyLower(AsStr(rows[i][k])) \in allowed}
                          ELSE DOMAIN rows
        mask_resigned == {i \in DOMAIN rows : PyLower(PyStrip(AsStr(rows[i][k]))) = "resigned"}
    IN  Mask(rows, IF ir THEN mask_whitelist \cup mask_resigned ELSE mask_whitelist)

InsertAt(s, at, a, b) == SubSeq(s, 1, at) \o <<a, b>> \o SubSeq(s, at + 1, Len(s))

\* The loop that appends phone, distance and status to the leading columns.
RECURSIVE Ordered(_, _)
Ordered(ordered, more) ==
    IF more = <<>> THEN ordered
    ELSE LET col == Head(more)
         IN  IF col # None /\ col # "" /\ \A i \in DOMAIN ordered : ordered[i] # col
             THEN Ordered(Append(ordered, col), Tail(more))
             ELSE Ordered(ordered, Tail(more))

\* Step I and the final ordering.  Series.apply on an empty column returns an
\* empty Series, not a frame, so split_df["First Name"] raises KeyError; and
\* DataFrame.insert refuses a column name the frame already has.
StepI(cols, rows, name_col, phone_col, miles_col, status_col) ==
    LET k == ColIdx(cols, name_col)
    IN  IF Len(rows) = 0 THEN Raise("KeyError", "First Name")
        ELSE IF \E j \in DOMAIN cols : cols[j] = "First Name"
        THEN Raise("ValueError", "cannot insert First Name, already exists")
        ELSE IF \E j \in DOMAIN cols : cols[j] = "Last Name"
        THEN Raise("ValueError", "cannot insert Last Name, already exists")
        ELSE LET split_df == [i \in DOMAIN rows |-> _split_name_to_first_last(rows[i][k])]
                 cols2 == InsertAt(cols, k, "First Name", "Last Name")
                 rows2 == [i \in DOMAIN rows |->
                              InsertAt(rows[i], k, split_df[i].first, split_df[i].last)]
                 ordered == Ordered(<<name_col, "First Name", "Last Name">>,
                                    <<phone_col, miles_col, status_col>>)
                 remaining == SelectSeq(cols2, LAMBDA c : \A i \in DOMAIN ordered : ordered[i] # c)
                 final == ordered \o remaining
             IN  Table(final,
                       [i \in DOMAIN rows2 |->
                           [j \in DOMAIN final |-> rows2[i][ColIdx(cols2, final[j])]]],
                       miles_col)

clean_and_filter(raw, mm, wl, ir) ==
    LET h == _promote_header_and_drop_first_three(raw)
    IN  IF ~h.ok THEN h
        ELSE LET cols == h.columns
                 name_col == find_col(cols, NamePatterns)
                 phone_col == find_col(cols, PhonePatterns)
                 miles_col == find_col(cols, MilesPatterns)
                 status_col == find_col(cols, StatusPatterns)
             IN  IF phone_col = None THEN Raise("ValueError", NoPhoneMsg)
                 ELSE LET pk == ColIdx(cols, phone_col)
                          dE == StepE(StepD(StepC(h.rows, pk), pk), pk)
                      IN  IF name_col = None THEN Raise("ValueError", NoNameMsg)
                          ELSE LET dF == drop_duplicates(dE, ColIdx(cols, name_col))
                                   dG == IF miles_col # None
                                         THEN StepG(dF, ColIdx(cols, miles_col), mm)
                                         ELSE dF
                                   dH == IF status_col # None
                                         THEN StepH(dG, ColIdx(cols, status_col), wl, ir)
                                         ELSE dG
                               IN  StepI(cols, dH, name_col, phone_col, miles_col, status_col)

(***************************************************************************)
(* The inputs.  A raw table is three banner rows, a header row and data    *)
(* rows of five cells: name, phone, distance, status and a fifth cell no   *)
(* step of the pipeline reads, which tells the rows apart.                 *)
(***************************************************************************)
Banner == <<"Roster Report", "", "", "", "">>
Banner3 == <<Banner, Banner, Banner>>

\* name, phone, distance and status all resolved
HFull == <<"Employee Name", "Employee Phone", "Miles From Location", "Employee Status", "Emp ID">>
\* untidy header text; no status column
HMessy == <<" employee   name ", "Cell #", "Distance (mi)", "Notes", "Emp ID">>
\* no distance column
HNoMiles == <<"Name", "MOBILE", "Region", "Status", "Emp ID">>
\* no phone column
HNoPhone == <<"Employee Name", "Fax", "Miles", "Status", "Emp ID">>
\* no name column
HNoName == <<"Employee", "Phone", "Miles", "Status", "Emp ID">>

\* the fifth column is a shift title
HTitle == <<"Employee Name", "Employee Phone", "Miles From Location", "Employee Status",
            "Shift Position Title">>

GoodHeaders == {HFull, HMessy, HNoMiles}
BadHeaders == {HNoPhone, HNoName}

DataRows ==
    { <<"Lee, Ann", "(555) 223-1000", "50", "Active", "r01">>,
      <<"Lee, Ann", "1-555-2231", "10", "Active", "r02">>,
      <<"Lee, Ann", "555-0100", "50.01", "Resigned", "r03">>,
      <<"Lee, Ann", "555-0101", "49.99", "Terminated", "r04">>,
      <<"Bob Ray", "000-0000", "10", "Active", "r05">>,
      <<"Bob Ray", "555 0199", "abc", " resigned ", "r06">>,
      <<"Bob Ray", "5550123", "50", "ACTIVE", "r07">>,
      <<"Bob Ray", "", "50", "Active", "r08">>,
      <<"Cy", "5550111", "", "active ", "r09">>,
      <<"Cy", "(555) 223-1000", "10", "Resigned", "r10">>,
      <<NaN, NaN, NaN, NaN, "r11">>,
      <<"Cy", "1-555-2231", "50", "Terminated", "r12">> }

RECURSIVE SeqsUpTo(_, _)
SeqsUpTo(S, n) ==
    IF n = 0 THEN {<<>>}
    ELSE LET shorter == SeqsUpTo(S, n - 1)
         IN  shorter \cup {Append(t, x) : t \in {u \in shorter : Len(u) = n - 1}, x \in S}

\* max_miles in hundredths: 50.0 and 10.0
MilesChoices == {5000, 1000}
WhitelistChoices == {{}, {"Active"}}

Idle ==
    /\ full = ""
    /\ columns = <<>>
    /\ patterns = <<>>
    /\ allowed_shift_titles = {}
    /\ pass = 1
    /\ first_out = Raise("", "")
    /\ result = Raise("", "")
    /\ pc = "start"

Init ==
    /\ \/ \E n \in 0..3 : raw_df = SubSeq(Banner3, 1, n)
       \/ \E h \in GoodHeaders, data \in SeqsUpTo(DataRows, MaxRows) :
              raw_df = Banner3 \o <<h>> \o data
       \/ \E h \in BadHeaders, data \in SeqsUpTo(DataRows, 1) :
              raw_df = Banner3 \o <<h>> \o data
    /\ max_miles \in MilesChoices
    /\ status_whitelist \in WhitelistChoices
    /\ include_resigned \in BOOLEAN
    /\ Idle

\* clean_and_filter(raw_df, max_miles, status_whitelist, include_resigned)
CleanAndFilterCall ==
    /\ pc = "start"
    /\ result' = clean_and_filter(raw_df, max_miles, status_whitelist, include_resigned)
    /\ pc' = "done"
    /\ UNCHANGED <<raw_df, max_miles, status_whitelist, include_resigned,
                   allowed_shift_titles, full, columns, patterns, pass, first_out>>

Next == CleanAndFilterCall

Spec == Init /\ [][Next]_vars

(***************************************************************************)
(* What the claims speak of, read off the raw table and the result.        *)
(***************************************************************************)
\* The columns clean_and_filter resolves on a promoted header row, and where they are.
Resolve(h) ==
    LET cols == _promote_header_and_drop_first_three(Banner3 \o <<h>>).columns
        name == find_col(cols, NamePatterns)
        phone == find_col(cols, PhonePatterns)
        miles == find_col(cols, MilesPatterns)
        status == find_col(cols, StatusPatterns)
        At(col) == IF col = None THEN 0 ELSE ColIdx(cols, col)
    IN  [name |-> name, phone |-> phone, miles |-> miles, status |-> status,
         nk |-> At(name), pk |-> At(phone), mk |-> At(miles), sk |-> At(status)]

\* The same, tabulated once for the header rows of the inputs.
ResolveTable == [h \in GoodHeaders \cup BadHeaders \cup {HTitle} |-> Resolve(h)]

Ctx ==
    IF Len(raw_df) >= 4 THEN ResolveTable[raw_df[4]]
    ELSE [name |-> None, phone |-> None, miles |-> None, status |-> None,
          nk |-> 0, pk |-> 0, mk |-> 0, sk |-> 0]

\* A raw table of at least 4 rows whose header resolves a phone and a name column.
Resolved(c) == Len(raw_df) >= 4 /\ c.name # None /\ c.phone # None

\* The data rows of the raw table, by their position in it.
DataIdx == 5..Len(raw_df)
TagOf(i) == raw_df[i][5]

OutIdx == DOMAIN result.rows
OutCell(o, col) == result.rows[o][ColIdx(result.columns, col)]
InOutput(i) == result.ok /\ \E o \in OutIdx : OutCell(o, "Emp ID") = TagOf(i)

\* The digits of a phone cell, left to right.
OnlyDigits(x) ==
    LET t == IF x = NaN THEN "nan" ELSE x
        F[n \in 0..Len(t)] ==
            IF n = 0 THEN ""
            ELSE IF Ch(t, n) \in DigitChars THEN F[n - 1] \o Ch(t, n) ELSE F[n - 1]
    IN  F[Len(t)]

\* The phone filter lets row i through.
PhoneValid(c, i) ==
    LET d == OnlyDigits(raw_df[i][c.pk])
    IN  /\ d # ""
        /\ \E n \in 1..Len(d) : Ch(d, n) # "0"
        /\ Ch(d, 1) # "1"

\* Row i is the first row of its name among the rows the phone filter lets through.
FirstSurvivor(c, i) ==
    /\ PhoneValid(c, i)
    /\ \A j \in DataIdx :
           (j < i /\ PhoneValid(c, j)) => raw_df[j][c.nk] # raw_df[i][c.nk]

DistOk(c, i) ==
    \/ c.miles = None
    \/ LET n == to_numeric(raw_df[i][c.mk]) IN ~n.nan /\ n.v <= max_miles

\* The status rule as the claim words it.
StatusKeep(c, i) ==
    LET st == IF raw_df[i][c.sk] = NaN THEN "nan" ELSE raw_df[i][c.sk]
    IN  \/ status_whitelist = {}
        \/ \E w \in status_whitelist : PyLower(st) = PyLower(w)
        \/ include_resigned /\ PyLower(PyStrip(st)) = "resigned"

StatusOk(c, i) == c.status = None \/ StatusKeep(c, i)

SameName(c, i) == {j \in DataIdx : raw_df[j][c.nk] = raw_df[i][c.nk]}
OutWithName(c, i) ==
    IF result.ok THEN {o \in OutIdx : OutCell(o, c.name) = raw_df[i][c.nk]} ELSE {}
Min(S) == CHOOSE x \in S : \A y \in S : x <= y

(***************************************************************************)
(* C1 as stated: when two or more data rows share a name, the output has   *)
(* exactly one row of that name, and it is the first row of that name in   *)
(* the ORIGINAL order of the input.                                        *)
(***************************************************************************)
C1_DedupFirstInOriginalOrder ==
    LET c == Ctx IN
    (pc = "done" /\ Resolved(c)) =>
        \A i \in DataIdx :
            Cardinality(SameName(c, i)) >= 2 =>
                /\ Cardinality(OutWithName(c, i)) = 1
                /\ \A o \in OutWithName(c, i) :
                       OutCell(o, "Emp ID") = TagOf(Min(SameName(c, i)))

(***************************************************************************)
(* C1 amended: when two or more data rows share a name, the output has at  *)
(* most one row of that name; that row is the first row of that name among *)
(* the rows that pass the phone filter, and it is present exactly when     *)
(* that row also passes the distance and status filters.                   *)
(***************************************************************************)
C1_DedupFirstPhoneSurvivor ==
    LET c == Ctx IN
    (pc = "done" /\ Resolved(c)) =>
        \A i \in DataIdx :
            Cardinality(SameName(c, i)) >= 2 =>
                LET S == {j \in SameName(c, i) : PhoneValid(c, j)}
                IN  /\ Cardinality(OutWithName(c, i)) <= 1
                    /\ \A o \in OutWithName(c, i) :
                           S # {} /\ OutCell(o, "Emp ID") = TagOf(Min(S))
                    /\ OutWithName(c, i) # {} <=>
                           (S # {} /\ DistOk(c, Min(S)) /\ StatusOk(c, Min(S)))

\* Two rows share a name, the earlier one fails the phone filter, the later one is emitted.
C1_Witness ==
    LET c == Ctx IN
    /\ pc = "done" /\ Resolved(c) /\ result.ok
    /\ \E i, j \in DataIdx :
           /\ i < j
           /\ raw_df[i][c.nk] = raw_df[j][c.nk]
           /\ ~PhoneValid(c, i)
           /\ TagOf(i) # TagOf(j)
           /\ InOutput(j)

(***************************************************************************)
(* C3 as stated: clean_and_filter fails only with the header normalizer's  *)
(* two failures or a missing phone / name column; with at least 4 rows and *)
(* both columns resolved it returns a table with the First Name and Last   *)
(* Name columns, also when no data row exists or none survives.            *)
(***************************************************************************)
HasColumn(cols, c) == \E j \in DOMAIN cols : cols[j] = c

C3_OnlyDocumentedFailures ==
    LET c == Ctx IN
    pc = "done" =>
        /\ ~result.ok => result.msg \in {EmptyMsg, NoDataMsg, NoPhoneMsg, NoNameMsg}
        /\ Resolved(c) =>
               /\ result.ok
               /\ HasColumn(result.columns, "First Name")
               /\ HasColumn(result.columns, "Last Name")

(***************************************************************************)
(* C6: with a status column resolved, a row that reaches the status step   *)
(* is kept iff (the whitelist is empty or holds its lowercased status) or  *)
(* (include_resigned and its trimmed lowercased status is "resigned").     *)
(* With whitelist {"Active"}: "Resigned" is kept iff include_resigned,     *)
(* "Terminated" is dropped; an empty whitelist drops nothing.              *)
(***************************************************************************)
ReachesStatus(c, i) == FirstSurvivor(c, i) /\ DistOk(c, i)

C6_StatusComposition ==
    LET c == Ctx IN
    (pc = "done" /\ Resolved(c) /\ c.status # None) =>
        \A i \in DataIdx :
            ReachesStatus(c, i) =>
                /\ InOutput(i) <=> StatusKeep(c, i)
                /\ status_whitelist = {} => InOutput(i)
                /\ (status_whitelist = {"Active"} /\ raw_df[i][c.sk] = "Resigned")
                       => (InOutput(i) <=> include_resigned)
                /\ (status_whitelist = {"Active"} /\ raw_df[i][c.sk] = "Terminated")
                       => ~InOutput(i)

\* Whitelist {"Active"} with include_resigned: a "Resigned" row kept, a "Terminated" row dropped.
C6_Witness ==
    LET c == Ctx IN
    /\ pc = "done" /\ Resolved(c) /\ c.status # None
    /\ status_whitelist = {"Active"} /\ include_resigned
    /\ \E i, j \in DataIdx :
           /\ ReachesStatus(c, i) /\ raw_df[i][c.sk] = "Resigned" /\ InOutput(i)
           /\ ReachesStatus(c, j) /\ raw_df[j][c.sk] = "Terminated" /\ ~InOutput(j)

RawRowChoices ==
    { <<"Roster Report", "">>,
      <<" Employee \t  Name ", NaN>>,
      <<"Lee, Ann", "555-0100">> }

InitHeader ==
    /\ raw_df \in SeqsUpTo(RawRowChoices, MaxRaw)
    /\ max_miles = 5000
    /\ status_whitelist = {}
    /\ include_resigned = FALSE
    /\ Idle

\* _promote_header_and_drop_first_three(raw_df)
PromoteCall ==
    /\ pc = "start"
    /\ result' = _promote_header_and_drop_first_three(raw_df)
    /\ pc' = "done"
    /\ UNCHANGED <<raw_df, max_miles, status_whitelist, include_resigned,
                   allowed_shift_titles, full, columns, patterns, pass, first_out>>

NextHeader == PromoteCall

SpecHeader == InitHeader /\ [][NextHeader]_vars

\* A header cell with nothing to tidy: no outer and no repeated whitespace.
IsTidy(x) ==
    /\ x # NaN
    /\ \A i \in 1..Len(x) :
           Ch(x, i) \in SpaceChars =>
               /\ Ch(x, i) = " "
               /\ i > 1 /\ i < Len(x)
               /\ Ch(x, i + 1) \notin SpaceChars

\* The text of a cell with every whitespace character left out.
Squeeze(x) ==
    LET t == IF x = NaN THEN "" ELSE x
        F[n \in 0..Len(t)] ==
            IF n = 0 THEN ""
            ELSE IF Ch(t, n) \in SpaceChars THEN F[n - 1] ELSE F[n - 1] \o Ch(t, n)
    IN  F[Len(t)]

(***************************************************************************)
(* C5: with n the number of rows of the raw table, n = 0 fails with the    *)
(* empty-input failure, 1 <= n <= 3 fails with the (different)             *)
(* insufficient-data failure, and n >= 4 succeeds with exactly n - 4 data  *)
(* rows (rows 5..n) and row 4 as the column names.                         *)
(***************************************************************************)
C5_HeaderRowCount ==
    pc = "done" =>
        LET n == Len(raw_df)
        IN  /\ n = 0 => (~result.ok /\ result.msg = EmptyMsg)
            /\ (1 <= n /\ n <= 3) =>
                   (~result.ok /\ result.msg = NoDataMsg /\ result.msg # EmptyMsg)
            /\ n >= 4 =>
                   /\ result.ok
                   /\ Len(result.rows) = n - 4
                   /\ \A k \in 1..(n - 4) : result.rows[k] = raw_df[k + 4]
                   /\ Len(result.columns) = Len(raw_df[4])
                   /\ \A j \in DOMAIN raw_df[4] :
                          /\ Squeeze(result.columns[j]) = Squeeze(raw_df[4][j])
                          /\ IsTidy(raw_df[4][j]) => result.columns[j] = raw_df[4][j]

\* Exactly four rows: a header and no data row, not a failure.
C5_Witness ==
    /\ pc = "done"
    /\ Len(raw_df) = 4
    /\ result.ok
    /\ result.rows = <<>>
    /\ result.columns = <<"Lee, Ann", "555-0100">>

(***************************************************************************)
(* find_col on its own.                                                    *)
(***************************************************************************)
HeaderNames ==
    { "Status Name", "Employee Name", "EmployeeName", "Nickname", "Employee Phone",
      "Smiles From Location", "MI", "employee status", "Notes" }

PatternLists == {NamePatterns, PhonePatterns, MilesPatterns, StatusPatterns}

InitFind ==
    /\ columns \in SeqsUpTo(HeaderNames, MaxCols)
    /\ patterns \in PatternLists
    /\ raw_df = <<>>
    /\ max_miles = 5000
    /\ status_whitelist = {}
    /\ include_resigned = FALSE
    /\ full = ""
    /\ allowed_shift_titles = {}
    /\ pass = 1
    /\ first_out = Raise("", "")
    /\ result = None
    /\ pc = "start"

\* find_col(df, patterns)
FindColCall ==
    /\ pc = "start"
    /\ result' = find_col(columns, patterns)
    /\ pc' = "done"
    /\ UNCHANGED <<raw_df, max_miles, status_whitelist, include_resigned,
                   allowed_shift_titles, full, columns, patterns, pass, first_out>>

NextFind == FindColCall

SpecFind == InitFind /\ [][NextFind]_vars

(***************************************************************************)
(* C9: the result of find_col is the first column in table order that at   *)
(* least one pattern matches, whatever that pattern's rank, and it is      *)
(* absent exactly when no column matches any pattern; "Status Name" before *)
(* "Employee Name" is resolved as the name column.                         *)
(***************************************************************************)
C9_FirstMatchingColumn ==
    pc = "done" =>
        LET M == {i \in DOMAIN columns :
                     \E k \in DOMAIN patterns : ReSearch(patterns[k], columns[i])}
        IN  /\ M = {} <=> result = None
            /\ M # {} => result = columns[Min(M)]
            /\ (patterns = NamePatterns /\ columns = <<"Status Name", "Employee Name">>)
                   => result = "Status Name"

\* A column matching only the second name pattern, ahead of one matching the first.
C9_Witness ==
    /\ pc = "done"
    /\ patterns = NamePatterns
    /\ columns = <<"Status Name", "Employee Name">>
    /\ result = "Status Name"

(***************************************************************************)
(* _split_name_to_first_last on its own.                                   *)
(***************************************************************************)
Alphabet == {"a", "b", " ", ","}

RECURSIVE Strs(_)
Strs(n) ==
    IF n = 0 THEN {""}
    ELSE LET shorter == Strs(n - 1)
         IN  shorter \cup {t \o ch : t \in {u \in shorter : Len(u) = n - 1}, ch \in Alphabet}

NameExamples ==
    { NaN, "Smith, John Michael", "John Michael Smith", "Prince", " \t ",
      "  De La Cruz ,  Ana  Maria, Jr " }

InitSplit ==
    /\ full \in Strs(MaxLen) \cup NameExamples
    /\ raw_df = <<>>
    /\ max_miles = 5000
    /\ status_whitelist = {}
    /\ include_resigned = FALSE
    /\ columns = <<>>
    /\ patterns = <<>>
    /\ allowed_shift_titles = {}
    /\ pass = 1
    /\ first_out = Raise("", "")
    /\ result = Names("", "")
    /\ pc = "start"

\* _split_name_to_first_last(full)
SplitCall ==
    /\ pc = "start"
    /\ result' = _split_name_to_first_last(full)
    /\ pc' = "done"
    /\ UNCHANGED <<raw_df, max_miles, status_whitelist, include_resigned,
                   allowed_shift_titles, full, columns, patterns, pass, first_out>>

NextSplit == SplitCall

SpecSplit == InitSplit /\ [][NextSplit]_vars

IsBlank(x) == \A i \in 1..Len(x) : Ch(x, i) \in SpaceChars

\* x without its leading and trailing whitespace.
Trimmed(x) ==
    IF IsBlank(x) THEN ""
    ELSE LET ink == {i \in 1..Len(x) : Ch(x, i) \notin SpaceChars}
         IN  SubSeq(x, Min(ink), CHOOSE b \in ink : \A y \in ink : y <= b)

\* The whitespace-delimited tokens of x, as <<start, end>> spans.
TokenSpans(x) ==
    {sp \in (1..Len(x)) \X (1..Len(x)) :
        /\ sp[1] <= sp[2]
        /\ \A i \in sp[1]..sp[2] : Ch(x, i) \notin SpaceChars
        /\ sp[1] = 1 \/ Ch(x, sp[1] - 1) \in SpaceChars
        /\ sp[2] = Len(x) \/ Ch(x, sp[2] + 1) \in SpaceChars}

FirstToken(x) ==
    LET sp == CHOOSE t \in TokenSpans(x) : \A u \in TokenSpans(x) : t[1] <= u[1]
    IN  SubSeq(x, sp[1], sp[2])

LastToken(x) ==
    LET sp == CHOOSE t \in TokenSpans(x) : \A u \in TokenSpans(x) : u[1] <= t[1]
    IN  SubSeq(x, sp[1], sp[2])

(***************************************************************************)
(* C10: a missing name gives a missing pair; a blank one gives ("", "");   *)
(* a trimmed name with a comma is cut at its first comma, last = the       *)
(* trimmed part before it, first = the first token after it (or "");       *)
(* otherwise one token gives (token, "") and several give (first token,    *)
(* last token).  "Smith, John Michael" and "John Michael Smith" give       *)
(* ("John", "Smith"); "Prince" gives ("Prince", "").                       *)
(***************************************************************************)
C10_NameSplitRules ==
    pc = "done" =>
        /\ IF full = NaN THEN result = Names(NaN, NaN)
           ELSE IF IsBlank(full) THEN result = Names("", "")
           ELSE LET s == Trimmed(full)
                    commas == {i \in 1..Len(s) : Ch(s, i) = ","}
                IN  IF commas # {}
                    THEN LET k == Min(commas)
                             rest == SubSeq(s, k + 1, Len(s))
                         IN  /\ result.last = Trimmed(SubSeq(s, 1, k - 1))
                             /\ result.first = IF IsBlank(rest) THEN "" ELSE FirstToken(rest)
                    ELSE /\ result.first = FirstToken(s)
                         /\ result.last = IF Cardinality(TokenSpans(s)) = 1 THEN ""
                                          ELSE LastToken(s)
        /\ full = "Smith, John Michael" => result = Names("John", "Smith")
        /\ full = "John Michael Smith" => result = Names("John", "Smith")
        /\ full = "Prince" => result = Names("Prince", "")

\* The comma form with a middle name.
C10_Witness ==
    /\ pc = "done"
    /\ full = "Smith, John Michael"
    /\ result = Names("John", "Smith")

(***************************************************************************)
(* The output of clean_and_filter fed back to it: three banner rows, the   *)
(* output's column names as the header row, and its rows with the numbers  *)
(* of the converted column printed as decimals.                            *)
(***************************************************************************)
RECURSIVE NatStr(_)
NatStr(n) ==
    IF n < 10 THEN Ch("0123456789", n + 1)
    ELSE NatStr(n \div 10) \o Ch("0123456789", (n % 10) + 1)

\* A float64 cell as text: 5000 is "50.0", 4999 is "49.99", 1050 is "10.5".
FormatNum(v) ==
    LET a == IF v < 0 THEN 0 - v ELSE v
        f == a % 100
    IN  (IF v < 0 THEN "-" ELSE "") \o NatStr(a \div 100) \o "."
        \o (IF f % 10 = 0 THEN NatStr(f \div 10) ELSE NatStr(f \div 10) \o NatStr(f % 10))

Rewrapped(out) ==
    LET w == Len(out.columns)
        banner == [j \in 1..w |-> IF j = 1 THEN "Roster Report" ELSE ""]
        nk == IF out.numcol = None THEN 0 ELSE ColIdx(out.columns, out.numcol)
    IN  <<banner, banner, banner, out.columns>>
        \o [i \in DOMAIN out.rows |->
               [j \in 1..w |-> IF j = nk THEN FormatNum(out.rows[i][j]) ELSE out.rows[i][j]]]

InitIdem ==
    /\ \E h \in GoodHeaders, data \in SeqsUpTo(DataRows, MaxRows) :
           raw_df = Banner3 \o <<h>> \o data
    /\ max_miles \in MilesChoices
    /\ status_whitelist \in WhitelistChoices
    /\ include_resigned \in BOOLEAN
    /\ Idle

\* The first output becomes the raw table of a second call with the same criteria.
Rewrap ==
    /\ pc = "done"
    /\ pass = 1
    /\ result.ok
    /\ raw_df' = Rewrapped(result)
    /\ first_out' = result
    /\ pass' = 2
    /\ pc' = "start"
    /\ UNCHANGED <<max_miles, status_whitelist, include_resigned,
                   allowed_shift_titles, full, columns, patterns, result>>

NextIdem == CleanAndFilterCall \/ Rewrap

SpecIdem == InitIdem /\ [][NextIdem]_vars

(***************************************************************************)
(* C2 as stated: clean_and_filter applied to its own output, re-wrapped as *)
(* a raw table, with the same criteria, succeeds and returns at least as   *)
(* many rows as the first output.                                          *)
(***************************************************************************)
C2_SecondPassKeepsRows ==
    (pc = "done" /\ pass = 2) =>
        /\ result.ok
        /\ Len(result.rows) >= Len(first_out.rows)

(***************************************************************************)
(* The call the /process route makes.  Python binds the keywords of a call *)
(* to the parameters of the function before its body runs, and raises      *)
(* TypeError for a keyword the function does not have.                     *)
(***************************************************************************)
CleanAndFilterParams == {"raw_df", "max_miles", "status_whitelist", "include_resigned"}

ProcessKeywords ==
    {"raw_df", "max_miles", "status_whitelist", "include_resigned", "allowed_shift_titles"}

process(raw, mm, wl, ir, titles) ==
    IF ProcessKeywords \subseteq CleanAndFilterParams
    THEN clean_and_filter(raw, mm, wl, ir)
    ELSE Raise("TypeError",
               "clean_and_filter() got an unexpected keyword argument 'allowed_shift_titles'")

TitleRows ==
    { <<"Lee, Ann", "(555) 223-1000", "10", "Active", "RN">>,
      <<"Bob Ray", "5550123", "10", "Active", "LPN">>,
      <<"Cy", "5550111", "10", "Active", " rn ">>,
      <<"Dee", "5550112", "10", "Active", "">> }

TitleChoices == {{}, {"RN"}, {"rn", "LPN"}}

InitProcess ==
    /\ \E h \in {HTitle, HFull}, data \in SeqsUpTo(TitleRows, MaxRows) :
           raw_df = Banner3 \o <<h>> \o data
    /\ max_miles = 5000
    /\ status_whitelist \in WhitelistChoices
    /\ include_resigned = FALSE
    /\ full = ""
    /\ columns = <<>>
    /\ patterns = <<>>
    /\ allowed_shift_titles \in TitleChoices
    /\ pass = 1
    /\ first_out = Raise("", "")
    /\ result = Raise("", "")
    /\ pc = "start"

\* df_out = clean_and_filter(raw_df=..., ..., allowed_shift_titles=...) in process()
ProcessCall ==
    /\ pc = "start"
    /\ result' = process(raw_df, max_miles, status_whitelist, include_resigned,
                         allowed_shift_titles)
    /\ pc' = "done"
    /\ UNCHANGED <<raw_df, max_miles, status_whitelist, include_resigned,
                   allowed_shift_titles, full, columns, patterns, pass, first_out>>

NextProcess == ProcessCall

SpecProcess == InitProcess /\ [][NextProcess]_vars

\* The shift-title patterns of the specification, in its priority order (the
\* wildcard pattern "shift...title" matches no header the other three miss here).
TitlePatterns ==
    <<Pat(TRUE, <<"shift", "position", "title">>, TRUE),
      Pat(TRUE, <<"position", "title">>, TRUE),
      Pat(TRUE, <<"position">>, TRUE)>>

(***************************************************************************)
(* C4 as stated: the pipeline accepts allowed_shift_titles in the call of  *)
(* the /process route; with a title column resolved and a non-empty        *)
(* allowed set it keeps exactly the rows whose trimmed title matches a     *)
(* member case-insensitively, and otherwise removes no row at this step.   *)
(***************************************************************************)
C4_ShiftTitleFilter ==
    LET c == Ctx
        cols == _promote_header_and_drop_first_three(raw_df).columns
        title == find_col(cols, TitlePatterns)
        TitleKeep(i) ==
            \/ title = None
            \/ allowed_shift_titles = {}
            \/ \E t \in allowed_shift_titles :
                   PyLower(PyStrip(raw_df[i][ColIdx(cols, title)])) = PyLower(PyStrip(t))
    IN  (pc = "done" /\ Resolved(c)) =>
            /\ result.exc # "TypeError"
            /\ \A i \in DataIdx :
                   (FirstSurvivor(c, i) /\ DistOk(c, i) /\ StatusOk(c, i)) =>
                       ((result.ok /\ \E o \in OutIdx : OutCell(o, c.name) = raw_df[i][c.nk])
                            <=> TitleKeep(i))

====
